---- MODULE Spec2Model ----
(***************************************************************************)
(* Model of sql_queries.py: the DDL and DML statement templates of a       *)
(* bike-share warehouse (trips, stations, gbfs, time).                      *)
(*                                                                         *)
(* The statements are Amazon Redshift SQL ("copy ... access_key_id ...     *)
(* secret_access_key ... format as", lateral reference to the select-list  *)
(* alias "datetime").  The engine semantics the model follows:             *)
(*   - a table is a bag (multiset) of rows;                                *)
(*   - NOT NULL is enforced, UNIQUE and PRIMARY KEY are informational and  *)
(*     are not enforced on insert or copy;                                 *)
(*   - copy appends the records of the source file to the target table;    *)
(*   - truncate commits, so a failing insert after it leaves the table     *)
(*     empty;                                                              *)
(*   - avg of an integer column yields an integer (truncated);             *)
(*   - extract(dow ...) numbers Sunday as 0.                               *)
(* Statements are executed one at a time by a single caller.               *)
(***************************************************************************)
EXTENDS Bags, FiniteSets, Integers, Sequences, TLC

VARIABLES exists, rows, pc, last, result

vars == <<exists, rows, pc, last, result>>

(***************************************************************************)
(* Bounds of the model.                                                    *)
(***************************************************************************)
MaxTrips == 3

MaxGbfs == 2

MaxStations == 1

MaxFile == 2

MaxRuns == 2

(***************************************************************************)
(* Values.                                                                 *)
(***************************************************************************)
NULL == -1

TargetDate == 18737

LimitRows == 5

Tables == {"trips", "stations", "gbfs", "time"}

LoadTables == {"trips", "stations", "gbfs"}

\* Timestamps are seconds since 1970-01-01 00:00:00.
Ts(days, h, m, s) == days * 86400 + h * 3600 + m * 60 + s

T1 == Ts(TargetDate, 8, 0, 0)

T2 == Ts(TargetDate, 17, 30, 15)

T3 == Ts(TargetDate - 416, 23, 59, 59)

T4 == Ts(TargetDate + 1, 0, 0, 0)

\* Records a source file of trips may hold (columns the statements read).
TripRecords ==
    { [trip_id |-> 1, start_date |-> T1, end_date |-> T2, start_station_id |-> 7],
      [trip_id |-> 2, start_date |-> T3, end_date |-> T4, start_station_id |-> 7],
      [trip_id |-> 3, start_date |-> NULL, end_date |-> T1, start_station_id |-> 8] }

\* Records a source file of gbfs may hold.
GbfsRecords ==
    { [station_id |-> 7, num_bikes_available |-> 5, last_updated_dt |-> T1],
      [station_id |-> 7, num_bikes_available |-> 6, last_updated_dt |-> T2],
      [station_id |-> 8, num_bikes_available |-> 4, last_updated_dt |-> T4],
      [station_id |-> 8, num_bikes_available |-> 2, last_updated_dt |-> NULL] }

\* Records a source file of stations may hold.
StationRecords ==
    { [station_id |-> 7, name |-> "A"],
      [station_id |-> 8, name |-> "B"] }

FileRecords(t) ==
    CASE t = "trips" -> TripRecords
      [] t = "gbfs" -> GbfsRecords
      [] t = "stations" -> StationRecords

MaxRows(t) ==
    CASE t = "trips" -> MaxTrips
      [] t = "gbfs" -> MaxGbfs
      [] t = "stations" -> MaxStations


(***************************************************************************)
(* Bag helpers.                                                            *)
(***************************************************************************)
RECURSIVE SumOver(_, _)
SumOver(f, S) ==
    IF S = {} THEN 0
    ELSE LET x == CHOOSE y \in S : TRUE
         IN  f[x] + SumOver(f, S \ {x})

\* select col from b  (keeps duplicates)
Project(b, col) ==
    [v \in {r[col] : r \in BagToSet(b)} |->
        SumOver(b, {r \in BagToSet(b) : r[col] = v})]

RECURSIVE SeqToBag(_)
SeqToBag(s) ==
    IF s = <<>> THEN EmptyBag
    ELSE SetToBag({Head(s)}) (+) SeqToBag(Tail(s))

\* The source files of table t: up to MaxFile records; the order of the
\* records in a file has no effect on a table, so a file is the bag of its
\* records.
Files(t) ==
    { SeqToBag(s) : s \in UNION { [1..n -> FileRecords(t)] : n \in 0..MaxFile } }

(***************************************************************************)
(* Calendar extraction: extract(year|month|day|dow|hour from timestamp).   *)
(***************************************************************************)
DayNumber(t) == t \div 86400

\* [y, m, d] of a day number (proleptic Gregorian calendar).
CivilFromDays(days) ==
    LET z == days + 719468
        era == z \div 146097
        doe == z - era * 146097
        yoe == (doe - doe \div 1460 + doe \div 36524 - doe \div 146096) \div 365
        doy == doe - (365 * yoe + yoe \div 4 - yoe \div 100)
        mp == (5 * doy + 2) \div 153
        d == doy - (153 * mp + 2) \div 5 + 1
        m == IF mp < 10 THEN mp + 3 ELSE mp - 9
        y == yoe + era * 400 + (IF m <= 2 THEN 1 ELSE 0)
    IN  [y |-> y, m |-> m, d |-> d]

ExtractYear(t) == IF t = NULL THEN NULL ELSE CivilFromDays(DayNumber(t)).y

ExtractMonth(t) == IF t = NULL THEN NULL ELSE CivilFromDays(DayNumber(t)).m

ExtractDay(t) == IF t = NULL THEN NULL ELSE CivilFromDays(DayNumber(t)).d

ExtractDow(t) == IF t = NULL THEN NULL ELSE (DayNumber(t) + 4) % 7

ExtractHour(t) == IF t = NULL THEN NULL ELSE (t % 86400) \div 3600

\* cast(t as date) = '2021-04-20'; a null never satisfies the comparison.
OnTargetDate(t) == t # NULL /\ DayNumber(t) = TargetDate

(***************************************************************************)
(* State after construction: an empty warehouse, nothing executed.         *)
(***************************************************************************)
NoResult == {}

Init ==
    /\ exists = [t \in Tables |-> FALSE]
    /\ rows = [t \in Tables |-> EmptyBag]
    /\ pc = 0
    /\ last = [op |-> "none", tbl |-> "none", n |-> 0, ok |-> TRUE]
    /\ result = NoResult

\* The statement just executed: its kind, its table, whether it succeeded,
\* and n: for a copy the number of records in the source file, for
\* copy_time_query how many times in a row it has now run (up to MaxRuns).
Executed(op, tbl, n, ok) == [op |-> op, tbl |-> tbl, n |-> n, ok |-> ok]

Runs == IF last.op = "copy_time" /\ last.n < MaxRuns THEN last.n + 1
        ELSE IF last.op = "copy_time" THEN MaxRuns ELSE 1

(***************************************************************************)
(* Schema Manager: the statements of create_queries, in list order.  Each  *)
(* query is "drop table if exists T; create table if not exists T(...)";   *)
(* pc counts the statements of the current run already executed.           *)
(***************************************************************************)
create_queries == <<"trips", "stations", "gbfs", "time">>

NumStatements == 2 * Len(create_queries)

CurrentTable == create_queries[(pc \div 2) + 1]

\* Variant: every drop statement names the time table as well.
DropTableIfExists_AlsoTime(t) ==
    [exists |-> [u \in Tables |-> IF u \in {t, "time"} THEN FALSE ELSE exists[u]],
     rows |-> [u \in Tables |-> IF u \in {t, "time"} THEN EmptyBag ELSE rows[u]]]

\* Variant: the drop statement is missing from the create query.
DropTableIfExists_Missing(t) == [exists |-> exists, rows |-> rows]

\* drop table if exists t
DropTableIfExists(t) ==
    [exists |-> [exists EXCEPT ![t] = FALSE],
     rows |-> [rows EXCEPT ![t] = EmptyBag]]

\* create table if not exists t(...)
CreateTableIfNotExists(t) ==
    [exists |-> [exists EXCEPT ![t] = TRUE],
     rows |-> IF exists[t] THEN rows ELSE [rows EXCEPT ![t] = EmptyBag]]

DropStatement ==
    /\ pc % 2 = 0
    /\ LET db == DropTableIfExists(CurrentTable)
       IN  /\ exists' = db.exists
           /\ rows' = db.rows
    /\ pc' = pc + 1
    /\ last' = Executed("drop", CurrentTable, 0, TRUE)
    /\ result' = NoResult

CreateStatement ==
    /\ pc % 2 = 1
    /\ LET db == CreateTableIfNotExists(CurrentTable)
       IN  /\ exists' = db.exists
           /\ rows' = db.rows
    /\ pc' = (pc + 1) % NumStatements
    /\ last' = Executed("create", CurrentTable, 0, TRUE)
    /\ result' = NoResult

(***************************************************************************)
(* Bulk Loader: copy_table_query formatted with a table and a source file. *)
(***************************************************************************)
\* Variant: a copy that keeps one row per distinct record.
copy_table_query_Dedup(t, file) == SetToBag(BagToSet(rows[t] (+) file))

\* rows of table t after "copy t from file"
copy_table_query(t, file) == rows[t] (+) file

BulkLoad(t, file) ==
    /\ pc = 0
    /\ IF exists[t]
       THEN /\ BagCardinality(rows[t]) + BagCardinality(file) <= MaxRows(t)
            /\ rows' = [rows EXCEPT ![t] = copy_table_query(t, file)]
            /\ last' = Executed("copy", t, BagCardinality(file), TRUE)
       ELSE /\ rows' = rows
            /\ last' = Executed("copy", t, BagCardinality(file), FALSE)
    /\ UNCHANGED <<exists, pc>>
    /\ result' = NoResult

(***************************************************************************)
(* Time-Dimension Builder: copy_time_query.                                *)
(***************************************************************************)
\* select start_date ... union all select end_date ... union all
\* select last_updated_dt ...
UnionAllDt ==
    Project(rows["trips"], "start_date")
        (+) Project(rows["trips"], "end_date")
        (+) Project(rows["gbfs"], "last_updated_dt")

\* Variant: "distinct" is missing.
Distinct_Missing(b) == b

\* select distinct dt from (...)
Distinct(b) == SetToBag(BagToSet(b))

\* the select list: dt as datetime, extract(... from datetime) ...
TimeRow(dt) ==
    [datetime |-> dt,
     year |-> ExtractYear(dt),
     month |-> ExtractMonth(dt),
     day |-> ExtractDay(dt),
     day_of_week |-> ExtractDow(dt),
     hour |-> ExtractHour(dt)]

\* the rows the outer select of copy_time_query produces
copy_time_select ==
    LET dts == Distinct(UnionAllDt)
    IN  [r \in {TimeRow(dt) : dt \in BagToSet(dts)} |->
            SumOver(dts, {dt \in BagToSet(dts) : TimeRow(dt) = r})]

\* time.datetime is declared "not null"
ViolatesNotNull(b) == \E r \in BagToSet(b) : r.datetime = NULL

\* Variant: the truncate statement is missing.
TruncateTable_Missing(r, t) == r

\* truncate table t
TruncateTable(r, t) == [r EXCEPT ![t] = EmptyBag]

\* insert into t select ...
InsertInto(r, t, b) == [r EXCEPT ![t] = r[t] (+) b]

copy_time_query ==
    /\ pc = 0
    /\ IF ~exists["time"]
       THEN /\ rows' = rows
            /\ last' = Executed("copy_time", "time", Runs, FALSE)
       ELSE IF ~exists["trips"] \/ ~exists["gbfs"] \/ ViolatesNotNull(copy_time_select)
       THEN /\ rows' = TruncateTable(rows, "time")
            /\ last' = Executed("copy_time", "time", Runs, FALSE)
       ELSE /\ rows' = InsertInto(TruncateTable(rows, "time"), "time", copy_time_select)
            /\ last' = Executed("copy_time", "time", Runs, TRUE)
    /\ UNCHANGED <<exists, pc>>
    /\ result' = NoResult

(***************************************************************************)
(* Verification Queries.  A result set is a set of rows.                   *)
(***************************************************************************)
\* select count(*) from t
check_row_count(t) == BagCardinality(rows[t])

\* select count(*) from (select col, count(*) from t group by 1
\*                        having count(*) > 2)
check_primary_key_constraint(col, t) ==
    LET groups == Project(rows[t], col)
    IN  Cardinality({v \in DOMAIN groups : groups[v] > 2})

KeyColumns ==
    { <<"trip_id", "trips">>, <<"station_id", "stations">>,
      <<"station_id", "gbfs">>, <<"datetime", "time">> }

\* select start_station_id, count(*) as daily_trip_count from trips
\* where cast(start_date as date) = '2021-04-20' group by 1
DailyTripCount ==
    LET onDate == {r \in BagToSet(rows["trips"]) : OnTargetDate(r.start_date)}
    IN  [v \in {r.start_station_id : r \in onDate} |->
            SumOver(rows["trips"], {r \in onDate : r.start_station_id = v})]

\* gbfs g inner join stations s on g.station_id = s.station_id
\* inner join (...) t on t.start_station_id = g.station_id
\* where cast(g.last_updated_dt as date) = '2021-04-20'
\* Distinct joined (g, s) pairs; Copies gives how often each occurs.
Joined ==
    { p \in BagToSet(rows["gbfs"]) \X BagToSet(rows["stations"]) :
        /\ p[1].station_id = p[2].station_id
        /\ p[1].station_id \in DOMAIN DailyTripCount
        /\ OnTargetDate(p[1].last_updated_dt) }

Copies == [p \in Joined |-> rows["gbfs"][p[1]] * rows["stations"][p[2]]]

\* select g.station_id, s.name, avg(g.num_bikes_available),
\*        sum(t.daily_trip_count) ... group by 1,2
sample_query_groups ==
    { LET grp == {p \in Joined : p[1].station_id = k[1] /\ p[2].name = k[2]}
          cnt == SumOver(Copies, grp)
          bikes == SumOver([p \in grp |-> Copies[p] * p[1].num_bikes_available], grp)
          trips == SumOver([p \in grp |-> Copies[p] * DailyTripCount[p[1].station_id]], grp)
      IN  [station_id |-> k[1], name |-> k[2],
           avg |-> bikes \div cnt, sum |-> trips]
      : k \in {<<p[1].station_id, p[2].name>> : p \in Joined} }

\* limit 5: the result sets "limit n" may return
Limit(rs, n) ==
    IF Cardinality(rs) <= n THEN {rs}
    ELSE {sub \in SUBSET rs : Cardinality(sub) = n}

RowCountCheck(t) ==
    /\ pc = 0
    /\ IF exists[t]
       THEN /\ result' = {[count |-> check_row_count(t)]}
            /\ last' = Executed("check_row_count", t, 0, TRUE)
       ELSE /\ result' = NoResult
            /\ last' = Executed("check_row_count", t, 0, FALSE)
    /\ UNCHANGED <<exists, rows, pc>>

PrimaryKeyCheck(col, t) ==
    /\ pc = 0
    /\ IF exists[t]
       THEN /\ result' = {[count |-> check_primary_key_constraint(col, t)]}
            /\ last' = Executed("check_primary_key_constraint", t, 0, TRUE)
       ELSE /\ result' = NoResult
            /\ last' = Executed("check_primary_key_constraint", t, 0, FALSE)
    /\ UNCHANGED <<exists, rows, pc>>

sample_query ==
    /\ pc = 0
    /\ IF exists["gbfs"] /\ exists["stations"] /\ exists["trips"]
       THEN /\ result' \in Limit(sample_query_groups, LimitRows)
            /\ last' = Executed("sample_query", "gbfs", 0, TRUE)
       ELSE /\ result' = NoResult
            /\ last' = Executed("sample_query", "gbfs", 0, FALSE)
    /\ UNCHANGED <<exists, rows, pc>>

(***************************************************************************)
(* Specification.                                                          *)
(***************************************************************************)
\* Schema Manager, Bulk Loader and Time-Dimension Builder.
Next ==
    \/ DropStatement
    \/ CreateStatement
    \/ \E t \in LoadTables : \E file \in Files(t) : BulkLoad(t, file)
    \/ copy_time_query

Spec == Init /\ [][Next]_vars

\* Schema Manager, Bulk Loader and the Verification Queries.
NextVerify ==
    \/ DropStatement
    \/ CreateStatement
    \/ \E t \in LoadTables : \E file \in Files(t) : BulkLoad(t, file)
    \/ \E t \in Tables : RowCountCheck(t)
    \/ \E k \in KeyColumns : PrimaryKeyCheck(k[1], k[2])
    \/ sample_query

SpecVerify == Init /\ [][NextVerify]_vars

(***************************************************************************)
(* Properties.                                                             *)
(***************************************************************************)
\* Calendar date -> day number, and the weekday of a calendar date
\* (0 = Sunday), both computed independently of the extraction above.
DaysFromCivil(y, m, d) ==
    LET yy == IF m <= 2 THEN y - 1 ELSE y
        era == yy \div 400
        yoe == yy - era * 400
        doy == (153 * (IF m > 2 THEN m - 3 ELSE m + 9) + 2) \div 5 + d - 1
        doe == yoe * 365 + yoe \div 4 - yoe \div 100 + doy
    IN  era * 146097 + doe - 719468

WeekdayOf(y, m, d) ==
    LET off == <<0, 3, 2, 5, 0, 3, 5, 1, 4, 6, 2, 4>>
        yy == IF m < 3 THEN y - 1 ELSE y
    IN  (yy + yy \div 4 - yy \div 100 + yy \div 400 + off[m] + d) % 7

\* r carries the calendar decomposition of its datetime
IsDecomposition(r) ==
    /\ r.month \in 1..12
    /\ r.day \in 1..31
    /\ r.hour \in 0..23
    /\ LET start == DaysFromCivil(r.year, r.month, r.day) * 86400 + r.hour * 3600
       IN  start <= r.datetime /\ r.datetime < start + 3600
    /\ r.day_of_week = WeekdayOf(r.year, r.month, r.day)

\* every value, null included, of the three timestamp columns
SourceValues ==
    {r.start_date : r \in BagToSet(rows["trips"])}
        \cup {r.end_date : r \in BagToSet(rows["trips"])}
        \cup {r.last_updated_dt : r \in BagToSet(rows["gbfs"])}

SourceTimestamps == SourceValues \ {NULL}

\* number of rows of table t satisfying P
CountWhere(t, P(_)) == SumOver(rows[t], {r \in BagToSet(rows[t]) : P(r)})

BuilderRan ==
    /\ last.op = "copy_time"
    /\ exists["time"] /\ exists["trips"] /\ exists["gbfs"]

\* C1: after copy_time_query has run, every timestamp occurring in
\* trips.start_date, trips.end_date or gbfs.last_updated_dt has exactly one
\* row in time, and that row holds the calendar decomposition of the
\* timestamp.
C1_OneRowPerTimestamp ==
    BuilderRan =>
        \A t \in SourceTimestamps :
            /\ LET IsT(r) == r.datetime = t IN CountWhere("time", IsT) = 1
            /\ \A r \in BagToSet(rows["time"]) : r.datetime = t => IsDecomposition(r)

\* C2: running copy_time_query again, with trips and gbfs unchanged, leaves
\* the time table exactly as the previous run left it.
C2_Idempotent ==
    [][(last.op = "copy_time" /\ last'.op = "copy_time") =>
          /\ rows'["time"] = rows["time"]
          /\ exists' = exists
          /\ last'.ok = last.ok]_vars

C2_Witness ==
    /\ last.op = "copy_time" /\ last.ok /\ last.n = 2
    /\ BagCardinality(rows["time"]) >= 2

\* C3: when a source column holds a null timestamp, copy_time_query leaves
\* the null out of the distinct set: the run succeeds (no warehouse error)
\* and time holds no row with a null datetime.
C3_NullExcluded ==
    (BuilderRan /\ NULL \in SourceValues) =>
        /\ last.ok
        /\ \A r \in BagToSet(rows["time"]) : r.datetime # NULL

\* some key value occurs in two or more rows of t
HasDuplicateKey(col, t) ==
    \E v \in {r[col] : r \in BagToSet(rows[t])} :
        LET HasV(r) == r[col] = v IN CountWhere(t, HasV) >= 2

\* C4: check_primary_key_constraint returns 0 when no key value occurs in
\* more than one row and at least 1 when some key value occurs in two or
\* more rows.
C4_DetectorFlagsDuplicates ==
    (last.op = "check_primary_key_constraint" /\ last.ok) =>
        \E k \in KeyColumns :
            /\ k[2] = last.tbl
            /\ \E c \in 0..(MaxTrips + MaxGbfs + MaxStations) :
                /\ result = {[count |-> c]}
                /\ HasDuplicateKey(k[1], k[2]) => c >= 1
                /\ ~HasDuplicateKey(k[1], k[2]) => c = 0

\* C5: for a station with n trips starting on the target date and k >= 1
\* gbfs rows dated on the target date, sample_query returns exactly one row
\* for the station, with sum(daily_trip_count) = n and
\* avg(num_bikes_available) equal to the mean over the k gbfs rows.
C5_SampleQueryTotals ==
    (last.op = "sample_query" /\ last.ok) =>
        \A sid \in {r.station_id : r \in BagToSet(rows["stations"])} :
            LET StartsHere(r) == r.start_station_id = sid /\ OnTargetDate(r.start_date)
                IsStation(r) == r.station_id = sid
                onDate == {g \in BagToSet(rows["gbfs"]) :
                              g.station_id = sid /\ OnTargetDate(g.last_updated_dt)}
                n == CountWhere("trips", StartsHere)
                k == SumOver(rows["gbfs"], onDate)
                bikes == SumOver([g \in onDate |->
                                     rows["gbfs"][g] * g.num_bikes_available], onDate)
            IN  (n >= 1 /\ k >= 1 /\ CountWhere("stations", IsStation) = 1) =>
                    /\ Cardinality({r \in result : r.station_id = sid}) = 1
                    /\ \A r \in result : r.station_id = sid =>
                          r.sum = n /\ r.avg * k = bikes

\* C6: gbfs never holds two rows with the same station_id.
C6_GbfsOneRowPerStation ==
    \A g \in BagToSet(rows["gbfs"]) :
        LET SameStation(r) == r.station_id = g.station_id
        IN  CountWhere("gbfs", SameStation) = 1

\* C7 (as stated): time is never dropped; once it exists it exists in every
\* later state.
C7_TimeNeverDropped == [][exists["time"] => exists'["time"]]_vars

\* C7 (amended): time is dropped only by the drop statement of
\* create_time_table_query, which the Schema Manager runs like those of the
\* other three tables; copy_time_query keeps the structure, and while time
\* exists its rows change only through copy_time_query.
C7_TimeLifecycle ==
    [][/\ (exists["time"] /\ ~exists'["time"]) =>
              (last'.op = "drop" /\ last'.tbl = "time")
       /\ (exists["time"] /\ exists'["time"] /\ rows'["time"] # rows["time"]) =>
              last'.op = "copy_time"
       /\ last'.op = "copy_time" => exists' = exists]_vars

C7_Witness ==
    /\ last.op = "drop" /\ last.tbl = "time"
    /\ ~exists["time"]
    /\ exists["trips"] /\ exists["stations"] /\ exists["gbfs"]

\* C8: a successful copy into trips, stations or gbfs raises the row count
\* of the target by the number of records in the file, keeps every row that
\* was there, and touches no other table.
C8_CopyAppends ==
    [][(last'.op = "copy" /\ last'.ok) =>
          /\ BagCardinality(rows'[last'.tbl])
                = BagCardinality(rows[last'.tbl]) + last'.n
          /\ rows[last'.tbl] \sqsubseteq rows'[last'.tbl]
          /\ \A u \in Tables \ {last'.tbl} : rows'[u] = rows[u]]_vars

C8_Witness ==
    /\ last.op = "copy" /\ last.ok /\ last.n = 2
    /\ BagCardinality(rows[last.tbl]) = 3
    /\ \E r \in BagToSet(rows[last.tbl]) : rows[last.tbl][r] >= 2

\* C9: when the Schema Manager has executed every statement of
\* create_queries, all four tables exist and trips, stations and gbfs are
\* empty, so check_row_count on them gives 0.
C9_FreshSchema ==
    (pc = 0 /\ last.op = "create") =>
        /\ \A t \in Tables : exists[t]
        /\ \A t \in LoadTables : rows[t] = EmptyBag /\ check_row_count(t) = 0

C9_Witness ==
    /\ pc = 0 /\ last.op = "create" /\ last.tbl = "time"
    /\ \A t \in Tables : exists[t]

\* C10: no two rows of time have the same datetime.
C10_TimeDatetimeUnique ==
    \A r \in BagToSet(rows["time"]) :
        LET SameDt(x) == x.datetime = r.datetime
        IN  CountWhere("time", SameDt) = 1

C10_Witness ==
    /\ last.op = "copy_time" /\ last.ok
    /\ BagCardinality(rows["time"]) >= 3
    /\ \E r \in BagToSet(rows["trips"]) : rows["trips"][r] >= 2

====
